---- MODULE Spec2Model ----
(***************************************************************************)
(* Model of proj3.c: agglomerative clustering of labelled 2-D objects.     *)
(* The state is that of main(): the cluster array, its logical length, the *)
(* loader's position in the input file and the indices find_neighbours     *)
(* hands to merge_clusters and remove_cluster.                             *)
(*                                                                         *)
(* Distances are C floats (IEEE-754 binary32, round to nearest even).  A   *)
(* float is modelled exactly, as [m, e] standing for m * 2^e with m = 0 or *)
(* 2^23 <= m < 2^24; sqrtf, the float addition and the float division of   *)
(* cluster_distance are computed bit for bit.                              *)
(***************************************************************************)
EXTENDS Integers, Sequences, FiniteSets

\* ------------------------------------------------------------ bounds
\* Largest number of data lines of an input file.
MaxPoints == 4
\* Number of reallocations that succeed before realloc starts to fail, at most.
MaxMem == 2

\* ------------------------------------------------------------ binary32
MantBits == 24

FZero == [m |-> 0, e |-> 0]

RECURSIVE BitLen(_)
\* Number of binary digits of n >= 0.
BitLen(n) == IF n = 0 THEN 0 ELSE 1 + BitLen(n \div 2)

\* The float nearest to (S + f) * 2^e, S > 0, where 0 < f < 1 if sticky and
\* f = 0 otherwise; ties go to the even mantissa.
RoundNorm(S, sticky, e) ==
    LET L == BitLen(S) IN
    IF L <= MantBits
    THEN [m |-> S * 2^(MantBits - L), e |-> e - (MantBits - L)]
    ELSE LET sh   == L - MantBits
             q    == S \div 2^sh
             r    == S % 2^sh
             half == 2^(sh - 1)
             up   == r > half \/ (r = half /\ (sticky \/ q % 2 = 1))
             m1   == IF up THEN q + 1 ELSE q
         IN IF m1 = 2^MantBits
            THEN [m |-> 2^(MantBits - 1), e |-> e + sh + 1]
            ELSE [m |-> m1, e |-> e + sh]

RECURSIVE Digits4(_)
\* Number of base-4 digits of n >= 0.
Digits4(n) == IF n = 0 THEN 0 ELSE 1 + Digits4(n \div 4)

RECURSIVE SqrtBits(_, _, _, _, _)
\* Digit-by-digit square root: step t of MantBits + 1 brings down the next
\* base-4 digit of s (zero once its d digits are used) and decides one more
\* bit of the root.
SqrtBits(s, d, t, root, rem) ==
    IF t > MantBits + 1 THEN [root |-> root, rem |-> rem]
    ELSE LET pair  == IF t <= d THEN (s \div 4^(d - t)) % 4 ELSE 0
             rem2  == rem * 4 + pair
             trial == root * 4 + 1
         IN IF rem2 >= trial
            THEN SqrtBits(s, d, t + 1, root * 2 + 1, rem2 - trial)
            ELSE SqrtBits(s, d, t + 1, root * 2, rem2)

\* sqrtf of the float whose value is the integer s >= 0.
sqrtf(s) ==
    IF s = 0 THEN FZero
    ELSE LET d == Digits4(s)
             r == SqrtBits(s, d, 1, 0, 0)
         IN RoundNorm(r.root, r.rem # 0, d - (MantBits + 1))

\* a + b in float arithmetic, a and b >= 0.
FAdd(a, b) ==
    IF a.m = 0 THEN b
    ELSE IF b.m = 0 THEN a
    ELSE LET hi   == IF a.e >= b.e THEN a ELSE b
             lo   == IF a.e >= b.e THEN b ELSE a
             diff == hi.e - lo.e
         IN IF diff > MantBits + 2 THEN hi
            ELSE RoundNorm(hi.m * 8 + (lo.m * 8) \div 2^diff,
                           (lo.m * 8) % 2^diff # 0, hi.e - 3)

\* a / n in float arithmetic, n an int in 1..32 converted to float.
FDivInt(a, n) ==
    IF a.m = 0 THEN FZero
    ELSE RoundNorm((a.m * 64) \div n, (a.m * 64) % n # 0, a.e - 6)

\* a < b and a <= b on floats >= 0.
FLt(a, b) ==
    IF b.m = 0 THEN FALSE
    ELSE IF a.m = 0 THEN TRUE
    ELSE a.e < b.e \/ (a.e = b.e /\ a.m < b.m)

FLe(a, b) == a = b \/ FLt(a, b)


\* ------------------------------------------------------------ objects and clusters
\* struct obj_t
obj_t(id, x, y) == [id |-> id, x |-> x, y |-> y]

\* struct cluster_t.  obj holds the size objects stored so far, in buffer order;
\* capacity = 0 stands for obj == NULL.
cluster_t(size, capacity, obj) == [size |-> size, capacity |-> capacity, obj |-> obj]

\* A slot of the malloc'ed array no init_cluster has written yet.
Indeterminate == cluster_t(-1, -1, << >>)

CLUSTER_CHUNK == 10

\* init_cluster, the allocation succeeding.
init_cluster(cap) == cluster_t(0, cap, << >>)

clear_cluster_keep(c) == c

clear_cluster(c) == cluster_t(0, 0, << >>)

\* resize_cluster.  mem is the number of reallocations that still succeed
\* (negative: no limit); ret is FALSE for a NULL return.
resize_cluster(c, new_cap, mem) ==
    IF c.capacity >= new_cap THEN [c |-> c, ret |-> TRUE, mem |-> mem]
    ELSE IF mem = 0 THEN [c |-> c, ret |-> FALSE, mem |-> mem]
    ELSE [c   |-> [c EXCEPT !.capacity = new_cap],
          ret |-> TRUE,
          mem |-> IF mem < 0 THEN mem ELSE mem - 1]

RECURSIVE GrowCap(_, _)
\* while (size >= cap) cap += CLUSTER_CHUNK;
GrowCap(size, cap) == IF size >= cap THEN GrowCap(size, cap + CLUSTER_CHUNK) ELSE cap

\* What a store outside the buffer or the array it was meant for can do, the
\* behaviour being undefined: land where nothing the program reads lies; land
\* on the objects of another cluster; leave the program in a state of which
\* nothing is known; kill the process.
UB == <<"lands", "scribbles", "undefined", "dies">>

\* An object whose bytes a stray store has overwritten: its fields stand for
\* any values.
Scribbled == obj_t(-1, -1, -1)

\* append_cluster.  The return value of resize_cluster is not looked at: after
\* a NULL the object is stored all the same, through a NULL pointer (capacity
\* 0: the process dies) or past the end of the buffer (undefined, ub is what
\* comes of it).  nulls counts the NULL returns.
append_cluster(c, obj, mem, ub) ==
    LET cap == GrowCap(c.size, c.capacity)
        r   == resize_cluster(c, cap, mem)
    IN IF r.ret
       THEN [c |-> [r.c EXCEPT !.obj = Append(@, obj), !.size = @ + 1],
             mem |-> r.mem, st |-> "ok", nulls |-> 0]
       ELSE IF c.capacity = 0 \/ ub = "dies"
       THEN [c |-> c, mem |-> r.mem, st |-> "crash", nulls |-> 1]
       ELSE [c |-> [c EXCEPT !.obj = Append(@, obj), !.size = @ + 1],
             mem |-> r.mem, st |-> IF ub = "undefined" THEN "undefined" ELSE "ok",
             nulls |-> 1]

RECURSIVE InsertById(_, _)
InsertById(s, o) ==
    IF s = << >> THEN << o >>
    ELSE IF s[Len(s)].id > o.id
         THEN Append(InsertById(SubSeq(s, 1, Len(s) - 1), o), s[Len(s)])
         ELSE Append(s, o)

RECURSIVE SortById(_)
SortById(s) ==
    IF Len(s) <= 1 THEN s
    ELSE InsertById(SortById(SubSeq(s, 1, Len(s) - 1)), s[Len(s)])

sort_cluster_none(c) == c

\* sort_cluster: qsort under obj_sort_compar, ascending id.  The ids of a file
\* are unique, so the result is the one ascending order.
sort_cluster(c) == [c EXCEPT !.obj = SortById(@)]

RECURSIVE MergeFrom(_, _, _, _, _, _)
\* for (i = 0; i < c2->size; i++) append_cluster(c1, c2->obj[i]);  sort_cluster(c1);
MergeFrom(c1, c2, i, mem, ub, nulls) ==
    IF i >= c2.size
    THEN [c |-> sort_cluster(c1), mem |-> mem, st |-> "ok", nulls |-> nulls]
    ELSE LET a == append_cluster(c1, c2.obj[i + 1], mem, ub)
         IN IF a.st # "ok"
            THEN [c |-> a.c, mem |-> a.mem, st |-> a.st, nulls |-> nulls + a.nulls]
            ELSE MergeFrom(a.c, c2, i + 1, a.mem, ub, nulls + a.nulls)

merge_clusters(c1, c2, mem, ub) == MergeFrom(c1, c2, 0, mem, ub, 0)

RECURSIVE RemoveFrom(_, _, _, _, _, _)
\* The loop of remove_cluster: slot idx is cleared and, unless it is the last,
\* refilled from slot idx + 1.
RemoveFrom(carr, narr, idx, mem, ub, nulls) ==
    IF idx >= narr
    THEN [carr |-> carr, mem |-> mem, st |-> "ok", nulls |-> nulls, ret |-> narr - 1]
    ELSE LET cleared == [carr EXCEPT ![idx] = clear_cluster(@)]
         IN IF idx = narr - 1
            THEN RemoveFrom(cleared, narr, idx + 1, mem, ub, nulls)
            ELSE LET m == merge_clusters(cleared[idx], cleared[idx + 1], mem, ub)
                     next == [cleared EXCEPT ![idx] = m.c]
                 IN IF m.st # "ok"
                    THEN [carr |-> next, mem |-> m.mem, st |-> m.st,
                          nulls |-> nulls + m.nulls, ret |-> narr - 1]
                    ELSE RemoveFrom(next, narr, idx + 1, m.mem, ub, nulls + m.nulls)

remove_cluster(carr, narr, idx, mem, ub) == RemoveFrom(carr, narr, idx, mem, ub, 0)


\* ------------------------------------------------------------ input files
\* A data line as sscanf reads it: ok is FALSE when fewer than three fields
\* convert.  A file is its first line (ok: "count=%d" converts) and its data lines.
Line(id, x, y) == [ok |-> TRUE, id |-> id, x |-> x, y |-> y]

BadLine == [ok |-> FALSE, id |-> 0, x |-> 0, y |-> 0]

File(hdr, count, lines) == [hdr |-> hdr, count |-> count, lines |-> lines]

\* Places of the objects of the enumerated files: two points of the x axis
\* and one point off it, so that distances tie and differ.
Cells == {<<0, 0>>, <<1, 0>>, <<0, 1>>}

\* Orders in which a file of n lines lists the ids 1..n: ascending, descending
\* and rotated by one.
IdOrders(n) == {[i \in 1..n |-> i], [i \in 1..n |-> n + 1 - i], [i \in 1..n |-> (i % n) + 1]}

GoodFiles ==
    UNION {{File(TRUE, n, [i \in 1..n |-> Line(ids[i], pos[i][1], pos[i][2])]) :
              pos \in [1..n -> Cells], ids \in IdOrders(n)} : n \in 1..MaxPoints}

PlainLines(k) == [i \in 1..k |-> Line(i, 0, 0)]

\* Files load_clusters rejects: a declared count that is not the number of
\* data lines, a count below 1, a first line that is no count, a data line
\* that does not convert, a coordinate outside [0, 1000].
BadFiles ==
    {File(TRUE, dk[1], PlainLines(dk[2])) :
       dk \in {x \in (0..MaxPoints) \X (0..MaxPoints) : x[1] # x[2] \/ x[1] = 0}}
    \cup {File(FALSE, 0, PlainLines(1))}
    \cup UNION {{File(TRUE, k, [PlainLines(k) EXCEPT ![pk[1]] =
                                  CASE pk[2] = 0 -> BadLine
                                    [] pk[2] = 1 -> Line(pk[1], 1001, 0)
                                    [] pk[2] = 2 -> Line(pk[1], 0, 1001)]) :
                   pk \in (1..k) \X (0..2)} : k \in 1..MaxPoints}

\* The worked example: 1:(1,1) 2:(2,2) 3:(3,3) 4:(10,10).
ExampleFile ==
    [hdr |-> TRUE, count |-> 4,
     lines |-> <<[ok |-> TRUE, id |-> 1, x |-> 1, y |-> 1],
                 [ok |-> TRUE, id |-> 2, x |-> 2, y |-> 2],
                 [ok |-> TRUE, id |-> 3, x |-> 3, y |-> 3],
                 [ok |-> TRUE, id |-> 4, x |-> 10, y |-> 10]>>]

Files == GoodFiles \cup BadFiles \cup {ExampleFile}

\* ------------------------------------------------------------ distances
Abs(n) == IF n < 0 THEN -n ELSE n

\* Largest coordinate of an accepted enumerated file, that of the last object
\* of the example: no two coordinates differ by more.
Span == ExampleFile.lines[Len(ExampleFile.lines)].x

\* sqrtf on the sums of two squares obj_distance can form.
SqrtTab == [s \in {a * a + b * b : a, b \in 0..Span} |-> sqrtf(s)]

\* obj_distance.  The coordinates are small integers, so the differences, the
\* squares and their sum are exact in float; sqrtf rounds.
obj_distance(o1, o2) ==
    LET a == o1.x - o2.x
        b == o1.y - o2.y
    IN SqrtTab[a * a + b * b]

RECURSIVE AverageLoop(_, _, _, _, _)
\* The loops of the average case; acc is [d |-> object_distance, n |-> object_count].
AverageLoop(c1, c2, i, j, acc) ==
    IF i >= c1.size THEN acc
    ELSE IF j >= c2.size THEN AverageLoop(c1, c2, i + 1, 0, acc)
    ELSE AverageLoop(c1, c2, i, j + 1,
                     [d |-> FAdd(acc.d, obj_distance(c1.obj[i + 1], c2.obj[j + 1])),
                      n |-> acc.n + 1])

RECURSIVE NearestLoop(_, _, _, _, _)
\* if (distance > new_distance) distance = new_distance;
NearestLoop(c1, c2, i, j, distance) ==
    IF i >= c1.size THEN distance
    ELSE IF j >= c2.size THEN NearestLoop(c1, c2, i + 1, 0, distance)
    ELSE LET new_distance == obj_distance(c1.obj[i + 1], c2.obj[j + 1])
         IN NearestLoop(c1, c2, i, j + 1,
                        IF FLt(new_distance, distance) THEN new_distance ELSE distance)

RECURSIVE FarthestLoop(_, _, _, _, _)
\* if (distance < new_distance) distance = new_distance;
FarthestLoop(c1, c2, i, j, distance) ==
    IF i >= c1.size THEN distance
    ELSE IF j >= c2.size THEN FarthestLoop(c1, c2, i + 1, 0, distance)
    ELSE LET new_distance == obj_distance(c1.obj[i + 1], c2.obj[j + 1])
         IN FarthestLoop(c1, c2, i, j + 1,
                         IF FLt(distance, new_distance) THEN new_distance ELSE distance)

cluster_distance_first(c1, c2, method) == obj_distance(c1.obj[1], c2.obj[1])

\* cluster_distance under premium_case = method (0 average, 1 nearest, 2 farthest).
cluster_distance(c1, c2, method) ==
    CASE method = 0 ->
           LET acc == AverageLoop(c1, c2, 0, 0, [d |-> FZero, n |-> 0])
           IN FDivInt(acc.d, acc.n)
      [] method = 1 ->
           NearestLoop(c1, c2, 0, 0, obj_distance(c1.obj[1], c2.obj[1]))
      [] method = 2 ->
           FarthestLoop(c1, c2, 0, 0, obj_distance(c1.obj[1], c2.obj[1]))

RECURSIVE ScanPairs(_, _, _, _, _, _)
\* The two loops of find_neighbours; best is [distance, c1, c2].
ScanPairs(carr, narr, method, i, j, best) ==
    IF i >= narr THEN best
    ELSE IF j >= narr THEN ScanPairs(carr, narr, method, i + 1, i + 2, best)
    ELSE LET new_dist == cluster_distance(carr[i], carr[j], method)
         IN ScanPairs(carr, narr, method, i, j + 1,
                      IF FLe(new_dist, best.distance)
                      THEN [distance |-> new_dist, c1 |-> i, c2 |-> j]
                      ELSE best)

RECURSIVE ScanPairsStrict(_, _, _, _, _, _)
ScanPairsStrict(carr, narr, method, i, j, best) ==
    IF i >= narr THEN best
    ELSE IF j >= narr THEN ScanPairsStrict(carr, narr, method, i + 1, i + 2, best)
    ELSE LET new_dist == cluster_distance(carr[i], carr[j], method)
         IN ScanPairsStrict(carr, narr, method, i, j + 1,
                            IF FLt(new_dist, best.distance)
                            THEN [distance |-> new_dist, c1 |-> i, c2 |-> j]
                            ELSE best)

\* find_neighbours with the comparison made strict and the pair preset: the
\* first nearest pair wins.
find_neighbours_strict(carr, narr, method, c1, c2) ==
    ScanPairsStrict(carr, narr, method, 0, 1,
              [distance |-> cluster_distance(carr[0], carr[1], method), c1 |-> 0, c2 |-> 1])

\* find_neighbours with the comparison made strict: a first pair that is
\* nearest is never stored.
find_neighbours_gt(carr, narr, method, c1, c2) ==
    ScanPairsStrict(carr, narr, method, 0, 1,
              [distance |-> cluster_distance(carr[0], carr[1], method), c1 |-> c1, c2 |-> c2])

\* find_neighbours with the last cluster left out of the scan.
find_neighbours_short(carr, narr, method, c1, c2) ==
    IF narr = 2 THEN [distance |-> cluster_distance(carr[0], carr[1], method), c1 |-> 0, c2 |-> 1]
    ELSE ScanPairs(carr, narr - 1, method, 0, 1,
              [distance |-> cluster_distance(carr[0], carr[1], method), c1 |-> c1, c2 |-> c2])

\* find_neighbours; c1 and c2 come in with whatever *c1 and *c2 hold.
find_neighbours(carr, narr, method, c1, c2) ==
    ScanPairs(carr, narr, method, 0, 1,
              [distance |-> cluster_distance(carr[0], carr[1], method), c1 |-> c1, c2 |-> c2])


\* ------------------------------------------------------------ the program
VARIABLES
    file,          \* the input file (argv[1])
    narr,          \* main: the requested number of clusters (argv[2])
    premium_case,  \* the global method selector (argv[3])
    pc,            \* where the program is
    lineNumber,    \* load_clusters: lines read so far
    count,         \* load_clusters: the declared count
    clusters,      \* main: the cluster array, slots 0..count-1
    size,          \* main: the number of clusters
    c1, c2,        \* main: the indices find_neighbours stores
    heap,          \* reallocations that still succeed (negative: no limit)
    iters,         \* history: completed iterations of the loop of main
    oob,           \* history: slots at or past count that load_clusters wrote
    nulls          \* history: NULL returns of resize_cluster

vars == <<file, narr, premium_case, pc, lineNumber, count, clusters, size, c1, c2,
          heap, iters, oob, nulls>>

\* Values an int that was never assigned may hold.
Garbage == {-1, 1}

\* int c1, c2 of main are not initialised: until find_neighbours has stored
\* them they hold whatever the stack holds.
Stored(v, g) == IF iters = 0 THEN g ELSE v

InitWith(files, heaps) ==
    /\ file \in files
    /\ narr \in 1..MaxPoints
    /\ premium_case \in 0..2
    /\ pc = "header"
    /\ lineNumber = 0
    /\ count = 0
    /\ clusters = [i \in {} |-> Indeterminate]
    /\ size = 0
    /\ c1 = 0
    /\ c2 = 0
    /\ heap \in heaps
    /\ iters = 0
    /\ oob = {}
    /\ nulls = 0

\* main up to the call of load_clusters, the arguments accepted.
Init == InitWith(Files, {-1})

\* load_clusters on the first line of the file.
LoadHeader ==
    /\ pc = "header"
    /\ IF ~file.hdr
       THEN /\ pc' = "fail"
            /\ UNCHANGED <<count, clusters, lineNumber>>
       ELSE /\ count' = file.count
            /\ IF file.count < 1
               THEN /\ pc' = "fail"
                    /\ UNCHANGED <<clusters, lineNumber>>
               ELSE /\ clusters' = [i \in 0..(file.count - 1) |-> Indeterminate]
                    /\ lineNumber' = 1
                    /\ pc' = "lines"
    /\ UNCHANGED <<file, narr, premium_case, size, c1, c2, heap, iters, oob, nulls>>

\* The objects a store outside its buffer can land on, by cluster and place.
\* Those of the cluster stored into are among them: the ones past its buffer
\* lie in memory that is not its own, and sort_cluster moves them.
Victims(carr) ==
    {vp \in (DOMAIN carr) \X (1..MaxPoints) : vp[2] <= Len(carr[vp[1]].obj)}

\* carr with the objects at the places hit overwritten.
Scribble(carr, hit) ==
    [v \in DOMAIN carr |->
       [carr[v] EXCEPT !.obj = [p \in 1..Len(carr[v].obj) |->
                                  IF <<v, p>> \in hit THEN Scribbled ELSE carr[v].obj[p]]]]

\* The clusters after stores outside a buffer that are over (ub): on
\* "scribbles" any of the objects are overwritten.
Strays(carr, ub) ==
    IF ub = "scribbles"
    THEN {Scribble(carr, hit) : hit \in SUBSET Victims(carr)}
    ELSE {carr}

\* The heap has been written outside its blocks: a cluster holds more objects
\* than its buffer, or an object has been overwritten.  free and realloc are
\* then undefined.
Overrun(carr) ==
    \E i \in DOMAIN carr :
        \/ carr[i].size > carr[i].capacity
        \/ \E p \in 1..Len(carr[i].obj) : carr[i].obj[p] = Scribbled

\* The outcomes to go through at a step: all of UB where the step can do
\* something undefined (undef), else the first alone, nothing consulting it.
Outcomes(undef) == IF undef THEN DOMAIN UB ELSE {1}

Tainted(carr) == \E i \in DOMAIN carr : \E p \in 1..Len(carr[i].obj) : carr[i].obj[p] = Scribbled

\* load_clusters on one data line: init_cluster on slot lineNumber - 1, the
\* checks of the line, append_cluster.  Nothing compares the slot with count:
\* past the array the stores of init_cluster and append_cluster are undefined.
LoadLine ==
    /\ pc = "lines"
    /\ lineNumber <= Len(file.lines)
    /\ \E u \in Outcomes(lineNumber - 1 >= count \/ heap >= 0) :
         LET ub   == UB[u]
             l    == file.lines[lineNumber]
             k    == lineNumber - 1
             inb  == k < count
             bad  == ~l.ok \/ 0 > l.y \/ l.y > 1000 \/ 0 > l.x \/ l.x > 1000
             a    == append_cluster(init_cluster(1), obj_t(l.id, l.x, l.y), heap, ub)
         IN /\ oob' = IF inb THEN oob ELSE oob \cup {k}
            /\ IF ~inb /\ ub \in {"dies", "undefined"}
               THEN /\ pc' = IF ub = "dies" THEN "crash" ELSE "undefined"
                    /\ UNCHANGED <<clusters, lineNumber, heap, nulls>>
               ELSE IF bad
               THEN /\ pc' = "fail"
                    /\ clusters' \in IF inb THEN {[clusters EXCEPT ![k] = init_cluster(1)]}
                                     ELSE Strays(clusters, ub)
                    /\ UNCHANGED <<lineNumber, heap, nulls>>
               ELSE /\ clusters' \in IF inb THEN {[clusters EXCEPT ![k] = a.c]}
                                     ELSE Strays(clusters, ub)
                    /\ heap' = a.mem
                    /\ nulls' = nulls + a.nulls
                    /\ pc' = IF a.st = "ok" THEN "lines" ELSE a.st
                    /\ lineNumber' = IF a.st = "ok" THEN lineNumber + 1 ELSE lineNumber
    /\ UNCHANGED <<file, narr, premium_case, count, size, c1, c2, iters>>

\* load_clusters at the end of the file, and main up to its loop.
LoadEnd ==
    /\ pc = "lines"
    /\ lineNumber > Len(file.lines)
    /\ IF lineNumber # count + 1
       THEN /\ size' = 0
            /\ pc' = "fail"
       ELSE /\ size' = count
            /\ pc' = IF narr > count THEN "fail" ELSE "loop"
    /\ UNCHANGED <<file, narr, premium_case, lineNumber, count, clusters, c1, c2, heap,
                   iters, oob, nulls>>

\* while (size > narr): find_neighbours.
Find ==
    /\ pc = "loop"
    /\ size > narr
    /\ \E g1 \in Garbage, g2 \in Garbage :
         LET r == find_neighbours(clusters, size, premium_case, Stored(c1, g1), Stored(c2, g2))
         IN /\ c1' = r.c1
            /\ c2' = r.c2
    /\ pc' = "merge"
    /\ UNCHANGED <<file, narr, premium_case, lineNumber, count, clusters, size, heap,
                   iters, oob, nulls>>

\* merge_clusters(&clusters[c1], &clusters[c2]).  After an earlier store past
\* a buffer realloc is undefined; a store past the buffer of c1 is undefined.
Merge ==
    /\ pc = "merge"
    /\ \E u \in Outcomes(Overrun(clusters) \/ heap >= 0) :
         LET ub == UB[u]
             r  == merge_clusters(clusters[c1], clusters[c2], heap, ub)
             merged == [clusters EXCEPT ![c1] = r.c]
         IN IF Overrun(clusters) /\ ub \in {"dies", "undefined"}
            THEN /\ pc' = IF ub = "dies" THEN "crash" ELSE "undefined"
                 /\ UNCHANGED <<clusters, heap, nulls>>
            ELSE /\ clusters' \in IF r.st = "ok" /\ r.nulls > 0
                                  THEN Strays(merged, ub) ELSE {merged}
                 /\ heap' = r.mem
                 /\ nulls' = nulls + r.nulls
                 /\ pc' = IF r.st = "ok" THEN "remove" ELSE r.st
    /\ UNCHANGED <<file, narr, premium_case, lineNumber, count, size, c1, c2, iters, oob>>

\* The loop of main calling remove_cluster on c1, the cluster merged into.
Remove_c1 ==
    /\ pc = "remove"
    /\ \E u \in Outcomes(Overrun(clusters) \/ heap >= 0) :
         LET ub == UB[u]
             r  == remove_cluster(clusters, size, c1, heap, ub)
         IN IF Overrun(clusters) /\ ub \in {"dies", "undefined"}
            THEN /\ pc' = IF ub = "dies" THEN "crash" ELSE "undefined"
                 /\ UNCHANGED <<clusters, heap, nulls, size, iters>>
            ELSE /\ ~Tainted(clusters)
                 /\ clusters' = r.carr
                 /\ heap' = r.mem
                 /\ nulls' = nulls + r.nulls
                 /\ IF r.st = "ok"
                    THEN pc' = "loop" /\ size' = size - 1 /\ iters' = iters + 1
                    ELSE pc' = r.st /\ UNCHANGED <<size, iters>>
    /\ UNCHANGED <<file, narr, premium_case, lineNumber, count, c1, c2, oob>>

\* The loop of main without its size--.
Remove_nodec ==
    /\ pc = "remove"
    /\ \E u \in Outcomes(Overrun(clusters) \/ heap >= 0) :
         LET ub == UB[u]
             r  == remove_cluster(clusters, size, c2, heap, ub)
         IN IF Overrun(clusters) /\ ub \in {"dies", "undefined"}
            THEN /\ pc' = IF ub = "dies" THEN "crash" ELSE "undefined"
                 /\ UNCHANGED <<clusters, heap, nulls, size, iters>>
            ELSE /\ ~Tainted(clusters)
                 /\ clusters' = r.carr
                 /\ heap' = r.mem
                 /\ nulls' = nulls + r.nulls
                 /\ IF r.st = "ok"
                    THEN pc' = "loop" /\ size' = size /\ iters' = iters + 1
                    ELSE pc' = r.st /\ UNCHANGED <<size, iters>>
    /\ UNCHANGED <<file, narr, premium_case, lineNumber, count, c1, c2, oob>>

\* remove_cluster(clusters, size, c2); size--.  After a store past a buffer
\* free is undefined (glibc aborts on a chunk header it finds overwritten);
\* overwritten objects are not followed further.
Remove ==
    /\ pc = "remove"
    /\ \E u \in Outcomes(Overrun(clusters) \/ heap >= 0) :
         LET ub == UB[u]
             r  == remove_cluster(clusters, size, c2, heap, ub)
         IN IF Overrun(clusters) /\ ub \in {"dies", "undefined"}
            THEN /\ pc' = IF ub = "dies" THEN "crash" ELSE "undefined"
                 /\ UNCHANGED <<clusters, heap, nulls, size, iters>>
            ELSE /\ ~Tainted(clusters)
                 /\ clusters' = r.carr
                 /\ heap' = r.mem
                 /\ nulls' = nulls + r.nulls
                 /\ IF r.st = "ok"
                    THEN pc' = "loop" /\ size' = size - 1 /\ iters' = iters + 1
                    ELSE pc' = r.st /\ UNCHANGED <<size, iters>>
    /\ UNCHANGED <<file, narr, premium_case, lineNumber, count, c1, c2, oob>>

\* The loop of main ends: print_clusters.
Finish ==
    /\ pc = "loop"
    /\ size <= narr
    /\ pc' = "done"
    /\ UNCHANGED <<file, narr, premium_case, lineNumber, count, clusters, size, c1, c2,
                   heap, iters, oob, nulls>>

\* After print_clusters: clear_cluster on every cluster left, free(clusters),
\* return 0.
Cleanup ==
    /\ pc = "done"
    /\ \E u \in Outcomes(Overrun(clusters)) :
         LET ub == UB[u]
         IN IF Overrun(clusters) /\ ub \in {"dies", "undefined"}
            THEN /\ pc' = IF ub = "dies" THEN "crash" ELSE "undefined"
                 /\ UNCHANGED clusters
            ELSE /\ pc' = "exit"
                 /\ clusters' = [i \in DOMAIN clusters |->
                                   IF i < size THEN clear_cluster(clusters[i])
                                   ELSE clusters[i]]
    /\ UNCHANGED <<file, narr, premium_case, lineNumber, count, size, c1, c2, heap,
                   iters, oob, nulls>>

Next == LoadHeader \/ LoadLine \/ LoadEnd \/ Find \/ Merge \/ Remove \/ Finish \/ Cleanup

Spec == Init /\ [][Next]_vars


\* The same program with a heap on which realloc fails after at most MaxMem
\* successes.
InitOOM == InitWith(GoodFiles, 0..MaxMem)

SpecOOM == InitOOM /\ [][Next]_vars

\* ------------------------------------------------------------ properties
\* Indices of the clusters of the collection.
Live == 0..(size - 1)

\* The objects of the file, as load_clusters stores them.
FileObj(k) == obj_t(file.lines[k].id, file.lines[k].x, file.lines[k].y)

\* The collection load_clusters builds from the file.
Loaded == [i \in 0..(count - 1) |-> cluster_t(1, 1, << FileObj(i + 1) >>)]

RECURSIVE SumSizes(_, _)
SumSizes(carr, n) == IF n = 0 THEN 0 ELSE carr[n - 1].size + SumSizes(carr, n - 1)

\* Places (cluster, position) at which the collection holds an object.
Places == {ip \in Live \X (1..count) : ip[2] <= Len(clusters[ip[1]].obj)}

Ascending(c) == \A p \in 1..(Len(c.obj) - 1) : c.obj[p].id < c.obj[p + 1].id

ObjSet(c) == {c.obj[p] : p \in 1..Len(c.obj)}

\* C1: at every boundary of an iteration of the loop of main the sizes of the
\* clusters 0..size-1 add up to the number of objects loaded, and every object
\* of the file is held at exactly one place of exactly one of these clusters.
C1_Conservation ==
    pc \in {"loop", "done"} =>
        /\ SumSizes(clusters, size) = count
        /\ \A i \in Live : clusters[i].size = Len(clusters[i].obj)
        /\ \A k \in 1..count :
             Cardinality({ip \in Places : clusters[ip[1]].obj[ip[2]].id = file.lines[k].id}) = 1
        /\ \A ip \in Places : \E k \in 1..count : clusters[ip[1]].obj[ip[2]] = FileObj(k)

\* Two iterations have run on a file of MaxPoints objects.
C1_Witness == pc = "loop" /\ iters = 2 /\ count = MaxPoints /\ size = MaxPoints - 2

\* C2: the loop runs count - narr iterations and ends with exactly narr
\* clusters; while it runs, iterations done plus clusters left is the number
\* loaded and at least narr are left.  With narr = count it does not run and
\* the collection is the loaded one.
C2_Termination ==
    /\ pc \in {"loop", "merge", "remove"} => iters = count - size /\ size >= narr
    /\ pc \in {"merge", "remove"} => size > narr
    /\ pc = "done" => size = narr /\ iters = count - narr
    /\ pc = "done" /\ narr = count => clusters = Loaded /\ iters = 0

\* The loop has ended after at least two iterations.
C2_Witness == pc = "done" /\ iters >= 2 /\ size = narr /\ narr >= 2

\* Distance of clusters i and j as find_neighbours computes it.
D(i, j) == cluster_distance(clusters[i], clusters[j], premium_case)

\* (i, j) comes after (k, l) in the scan of find_neighbours.
After(i, j, k, l) == i > k \/ (i = k /\ j > l)

\* C3: the pair find_neighbours stores satisfies 0 <= c1 < c2 < size, no pair
\* of clusters is closer, and every pair scanned after it is strictly farther.
C3_NearestLastWins ==
    pc = "merge" =>
        /\ 0 <= c1 /\ c1 < c2 /\ c2 < size
        /\ \A i \in Live : \A j \in Live :
             i < j => /\ FLe(D(c1, c2), D(i, j))
                      /\ After(i, j, c1, c2) => FLt(D(c1, c2), D(i, j))

\* find_neighbours has chosen the later of two nearest pairs.
C3_Witness ==
    /\ pc = "merge"
    /\ size >= 3
    /\ \E i \in Live : \E j \in Live :
         i < j /\ After(c1, c2, i, j) /\ D(i, j) = D(c1, c2)

\* What remove_cluster(before, n, idx) must give.
RemovePost(before, n, idx, r) ==
    /\ r.ret = n - 1
    /\ r.st = "ok"
    /\ DOMAIN r.carr = DOMAIN before
    /\ \A k \in DOMAIN before :
         IF k < idx \/ k >= n THEN r.carr[k] = before[k]
         ELSE IF k < n - 1
         THEN r.carr[k].obj = before[k + 1].obj /\ r.carr[k].size = before[k + 1].size
         ELSE r.carr[k] = cluster_t(0, 0, << >>)

\* C4: remove_cluster on the collection main hands it, for every index idx:
\* it returns size - 1, the slots below idx are as before, every slot from idx
\* to size - 2 holds the object sequence of its successor, and slot size - 1 is
\* released.  After the call of main the slot just past the collection is the
\* released one.
C4_RemoveShifts ==
    /\ pc = "remove" =>
         \A idx \in Live :
            RemovePost(clusters, size, idx, remove_cluster(clusters, size, idx, heap, "lands"))
    /\ pc = "loop" /\ iters > 0 => clusters[size] = cluster_t(0, 0, << >>)

\* remove_cluster has run in main on an index that is not the last.
C4_Witness == pc = "loop" /\ iters > 0 /\ c2 < size /\ clusters[size].capacity = 0

\* C5: merge_clusters on any two clusters of the collection gives the target
\* strictly ascending by id, holding exactly the objects of both; and every
\* cluster of the collection is strictly ascending by id.
C5_Sorted ==
    /\ pc \in {"loop", "merge", "remove", "done"} => \A i \in Live : Ascending(clusters[i])
    /\ pc = "merge" =>
         \A i \in Live : \A j \in Live \ {i} :
            LET r == merge_clusters(clusters[i], clusters[j], heap, "lands")
            IN /\ r.st = "ok"
               /\ Ascending(r.c)
               /\ r.c.size = clusters[i].size + clusters[j].size
               /\ Len(r.c.obj) = r.c.size
               /\ ObjSet(r.c) = ObjSet(clusters[i]) \cup ObjSet(clusters[j])
    /\ pc = "remove" => clusters[c1].size >= 2 /\ ObjSet(clusters[c2]) \subseteq ObjSet(clusters[c1])

\* merge_clusters has run in main and the sort moved an appended object to the
\* front of the target.
C5_Witness ==
    /\ pc = "remove"
    /\ clusters[c1].size >= 3
    /\ clusters[c1].obj[1] \in ObjSet(clusters[c2])

Ids(c) == [p \in 1..Len(c.obj) |-> c.obj[p].id]

\* C6: on the worked example, average method, narr = 2: the first iteration
\* merges clusters 1 and 2 and leaves {1} {2,3} {4}, the second merges clusters
\* 0 and 1, and the result is {1,2,3} {4}.
C6_Example ==
    file = ExampleFile /\ premium_case = 0 /\ narr = 2 =>
        /\ pc = "merge" /\ iters = 0 => c1 = 1 /\ c2 = 2
        /\ pc = "loop" /\ iters = 1 =>
             size = 3 /\ [i \in Live |-> Ids(clusters[i])] = [i \in 0..2 |->
                              CASE i = 0 -> <<1>> [] i = 1 -> <<2, 3>> [] i = 2 -> <<4>>]
        /\ pc = "merge" /\ iters = 1 => c1 = 0 /\ c2 = 1
        /\ pc = "done" =>
             size = 2 /\ Ids(clusters[0]) = <<1, 2, 3>> /\ Ids(clusters[1]) = <<4>>

\* The run on the worked example has ended.
C6_Witness ==
    file = ExampleFile /\ premium_case = 0 /\ narr = 2 /\ pc = "done" /\ iters = 2

\* floor(a * 2^16) for a float 0 <= a < 2^8.
Fix(a) == IF a.e + 16 >= 0 THEN a.m * 2^(a.e + 16) ELSE a.m \div 2^(-(a.e + 16))

\* Pairs of positions, one in each cluster.
Pairs(a, b) == (1..a.size) \X (1..b.size)

RECURSIVE SumFix(_, _, _)
SumFix(a, b, ps) ==
    IF ps = {} THEN 0
    ELSE LET p == CHOOSE q \in ps : TRUE
         IN Fix(obj_distance(a.obj[p[1]], b.obj[p[2]])) + SumFix(a, b, ps \ {p})

\* What cluster_distance(a, b) must give under each method: the mean of the
\* object distances over all pairs, to the precision of float arithmetic (and
\* the one distance itself when there is one pair), their minimum, their
\* maximum.
DistPost(a, b, method, r) ==
    LET n  == a.size * b.size
        ds == {obj_distance(a.obj[p[1]], b.obj[p[2]]) : p \in Pairs(a, b)}
    IN CASE method = 0 ->
              /\ Abs(n * Fix(r) - SumFix(a, b, Pairs(a, b))) <= 2 * n
              /\ n = 1 => r \in ds
              /\ \E lo \in ds : \E hi \in ds : FLe(lo, r) /\ FLe(r, hi)
         [] method = 1 -> r \in ds /\ \A d \in ds : FLe(r, d)
         [] method = 2 -> r \in ds /\ \A d \in ds : FLe(d, r)

\* C7: for every pair of clusters find_neighbours looks at, cluster_distance
\* is the mean, the minimum or the maximum of the object distances over all
\* pairs, as premium_case selects; and the clusters are as they were when
\* find_neighbours returns.
C7_Linkage ==
    [][pc = "loop" /\ pc' = "merge" =>
          /\ clusters' = clusters
          /\ \A i \in Live : \A j \in Live :
               i < j => DistPost(clusters[i], clusters[j], premium_case, D(i, j))]_vars

\* find_neighbours has compared clusters of two objects whose object
\* distances differ.
C7_Witness ==
    /\ pc = "merge"
    /\ \E i \in Live : \E j \in Live :
         /\ i < j /\ clusters[i].size >= 2 /\ clusters[j].size >= 2
         /\ Cardinality({obj_distance(clusters[i].obj[p[1]], clusters[j].obj[p[2]]) :
                           p \in Pairs(clusters[i], clusters[j])}) >= 2

\* C8: once resize_cluster has returned NULL the program has stopped with an
\* error and no cluster holds more objects than its capacity.
C8_AllocationFailureSurfaced ==
    nulls > 0 =>
        /\ pc = "fail"
        /\ \A i \in DOMAIN clusters : clusters[i].size <= clusters[i].capacity

\* C9: in the loop of main every cluster of the collection holds an object,
\* find_neighbours has been called on at least two clusters, and the pair
\* handed to merge_clusters and remove_cluster satisfies 0 <= c1 < c2 < size.
C9_Preconditions ==
    /\ pc \in {"loop", "merge", "remove"} =>
         /\ size >= 1 /\ size <= count
         /\ \A i \in Live : clusters[i].size >= 1 /\ clusters[i] # Indeterminate
    /\ pc \in {"merge", "remove"} =>
         /\ size >= 2
         /\ 0 <= c1 /\ c1 < c2 /\ c2 < size

\* find_neighbours has stored the pair in the second iteration.
C9_Witness == pc = "merge" /\ iters = 1 /\ size >= 2 /\ c1 < c2

\* C10: load_clusters writes no slot at or past the declared count.
C10_LoaderInBounds == oob = {}

====
